---- MODULE Spec2Model ----
(***************************************************************************)
(* parse_rust (src/src/lib.rs): a template such as "Age: {age:d}" is       *)
(* compiled by Parser::new into an anchored and an unanchored regular      *)
(* expression plus a field table; parse / search / findall run the         *)
(* expression over a text and convert every captured substring.            *)
(*                                                                         *)
(* A Rust string is a sequence of one-character strings: "{:d}" is         *)
(* <<"{", ":", "d", "}">>.  "u0663" stands for the single character        *)
(* U+0663 (ARABIC-INDIC DIGIT THREE), two bytes in UTF-8.                  *)
(***************************************************************************)
EXTENDS Integers, Sequences, FiniteSets, TLC

\* format, case_sensitive, extra_types, text: the template, the flag, the
\* caller's converters and the text of the session; parser: the Result of
\* Parser::new; call: the last call and what it returned; lookup: the last
\* ParseResult::get on that result; date_converter: the DateTimeConverter
\* whose convert is called directly; chrono: what the chrono release
\* of the build does where the releases differ (see ChronoReleases).
VARIABLES format, case_sensitive, extra_types, text, parser, call, lookup,
          date_converter, chrono

vars == <<format, case_sensitive, extra_types, text, parser, call, lookup,
          date_converter, chrono>>

\* Longest template of SpecCompile, longest text of Spec.
MaxFormatLen == 6
MaxTextLen == 3
\* Longest field name of SpecNames.
MaxNameLen == 4

(***************************************************************************)
(* Option, Result, panic                                                   *)
(***************************************************************************)
None == [tag |-> "None"]
Some(v) == [tag |-> "Some", val |-> v]
Ok(v) == [tag |-> "Ok", val |-> v]
Err(e) == [tag |-> "Err", err |-> e]
Panic == [tag |-> "Panic"]

\* The element of a set of one element: Only({e(r) : r \in {v}}) is e(v),
\* with v worked out once.
Only(S) == CHOOSE x \in S : TRUE

EmptyMap == [k \in {} |-> <<>>]
\* HashMap::insert: a later insert under the same key replaces the entry.
Insert(m, k, v) == [x \in (DOMAIN m) \cup {k} |-> IF x = k THEN v ELSE m[x]]

Range(s) == {s[i] : i \in 1..Len(s)}

RECURSIVE Flatten(_)
Flatten(ss) == IF ss = <<>> THEN <<>> ELSE Head(ss) \o Flatten(Tail(ss))

RECURSIVE SeqsUpTo(_, _)
\* Every string over the alphabet A of at most n characters.
SeqsUpTo(A, n) ==
  IF n = 0 THEN {<<>>}
  ELSE LET S == SeqsUpTo(A, n - 1) IN S \cup {Append(s, c) : s \in S, c \in A}

(***************************************************************************)
(* Characters                                                              *)
(***************************************************************************)
AsciiDigit == {"0", "1", "2", "3", "4", "5", "6", "7", "8", "9"}
\* Unicode decimal digits (general category Nd) outside ASCII.
OtherDigit == {"u0663"}
Lower == {"a", "b", "c", "d", "e", "f", "g", "h", "i", "n", "s", "t", "w", "x"}
Upper == {"A", "B", "X"}
Whitespace == {" ", "\n", "\t"}

DigitVal(c) ==
  CASE c = "0" -> 0 [] c = "1" -> 1 [] c = "2" -> 2 [] c = "3" -> 3 [] c = "4" -> 4
    [] c = "5" -> 5 [] c = "6" -> 6 [] c = "7" -> 7 [] c = "8" -> 8 [] c = "9" -> 9

\* Simple case folding, as the regex crate applies it under case_insensitive.
Fold(c) == CASE c = "A" -> "a" [] c = "B" -> "b" [] c = "X" -> "x" [] OTHER -> c

\* Length of the character in UTF-8.
ByteLen(c) == IF c \in OtherDigit THEN 2 ELSE 1

RECURSIVE ByteOffset(_, _)
\* Byte offset of the position after the first n characters of txt.
ByteOffset(txt, n) ==
  IF n = 0 THEN 0 ELSE ByteOffset(txt, n - 1) + ByteLen(txt[n])

RECURSIVE DecStr(_)
\* usize::to_string
DecStr(n) ==
  LET d == <<"0", "1", "2", "3", "4", "5", "6", "7", "8", "9">>[(n % 10) + 1]
  IN  IF n < 10 THEN <<d>> ELSE Append(DecStr(n \div 10), d)

AllIn(s, S) == \A i \in 1..Len(s) : s[i] \in S

RECURSIVE DigitsVal(_)
DigitsVal(s) ==
  IF s = <<>> THEN 0 ELSE 10 * DigitsVal(SubSeq(s, 1, Len(s) - 1)) + DigitVal(s[Len(s)])

(***************************************************************************)
(* Type converters                                                         *)
(***************************************************************************)
IntConverter == [name |-> "IntConverter", format_type |-> ""]
FloatConverter == [name |-> "FloatConverter", format_type |-> ""]
WordConverter == [name |-> "WordConverter", format_type |-> ""]
DateTimeConverter(ft) == [name |-> "DateTimeConverter", format_type |-> ft]
\* A converter of the caller: "digit" overrides get_pattern with one \d,
\* "any" keeps the default get_pattern of the trait; both box the substring
\* as a value of the caller's own type.
CustomConverter(ft) == [name |-> "CustomConverter", format_type |-> ft]

TypeConversionFailed == Err("TypeConversionFailed")
InvalidFormat == Err("InvalidFormat")

\* Box<dyn Any>: a value together with its run-time type.
Box(type, v) == [type |-> type, val |-> v]

\* str::parse::<i64>: an optional sign, then one or more ASCII digits.  The
\* overflow error needs 19 digits, more than any text of this model holds.
IntConverter_convert(s) ==
  LET digits == IF s # <<>> /\ s[1] \in {"-", "+"} THEN Tail(s) ELSE s
      neg == s # <<>> /\ s[1] = "-"
  IN  IF digits # <<>> /\ AllIn(digits, AsciiDigit)
      THEN Ok(Box("i64", IF neg THEN 0 - DigitsVal(digits) ELSE DigitsVal(digits)))
      ELSE TypeConversionFailed

RECURSIVE StripTrailingZeros(_)
StripTrailingZeros(s) ==
  IF s # <<>> /\ s[Len(s)] = "0" THEN StripTrailingZeros(SubSeq(s, 1, Len(s) - 1)) ELSE s

\* str::parse::<f64> on the decimal forms the texts can hold: an optional
\* sign, ASCII digits with at most one '.', at least one digit.
FloatConverter_convert(s) ==
  LET body == IF s # <<>> /\ s[1] \in {"-", "+"} THEN Tail(s) ELSE s
      neg == s # <<>> /\ s[1] = "-"
      dots == {i \in 1..Len(body) : body[i] = "."}
      dot == IF dots = {} THEN Len(body) + 1 ELSE CHOOSE i \in dots : TRUE
      ip == SubSeq(body, 1, dot - 1)
      fp == SubSeq(body, dot + 1, Len(body))
  IN  IF Cardinality(dots) <= 1 /\ Len(ip) + Len(fp) > 0
         /\ AllIn(ip, AsciiDigit) /\ AllIn(fp, AsciiDigit)
      THEN Ok(Box("f64", [neg |-> neg, int |-> DigitsVal(ip), frac |-> StripTrailingZeros(fp)]))
      ELSE TypeConversionFailed

WordConverter_convert(s) == Ok(Box("String", s))

\* The format types DateTimeConverter::convert has layouts for.
DateTimeTags == {"tg", "ta", "te", "th", "ts", "ti"}

(***************************************************************************)
(* chrono: format::parse over the items of a layout, then the fields it    *)
(* has set made into a NaiveDateTime, a NaiveDate or a NaiveTime.  Month   *)
(* and weekday names are matched as capitalised.                           *)
(***************************************************************************)
\* The releases of chrono differ in two ways.  ranges: a month, day, hour,
\* minute or second out of its range is refused when the field is set
\* ("on_set") or only when the date or the time is made from the fields
\* ("on_make").  whitespace: a space of the layout, a number and an offset
\* skip any whitespace of the input, none included ("lenient"), or a space
\* of the layout takes exactly that space and nothing else is skipped
\* ("exact").
ChronoReleases ==
  [ranges : {"on_set", "on_make"}, whitespace : {"lenient", "exact"}]

\* format::Parsed with nothing set.
Parsed0 ==
  [year |-> None, month |-> None, day |-> None, weekday |-> None,
   hour_div_12 |-> None, hour_mod_12 |-> None, minute |-> None,
   second |-> None, nanosecond |-> None, offset |-> None]

RECURSIVE TrimStart(_)
\* str::trim_start
TrimStart(s) == IF s # <<>> /\ s[1] \in Whitespace THEN TrimStart(Tail(s)) ELSE s

\* The whitespace skipped before a number and before an offset.
Skip(s) == IF chrono.whitespace = "lenient" THEN TrimStart(s) ELSE s

RECURSIVE DigitRun(_, _)
\* The number of ASCII digits s starts with, max at most.
DigitRun(s, max) ==
  IF max > 0 /\ s # <<>> /\ s[1] \in AsciiDigit THEN 1 + DigitRun(Tail(s), max - 1) ELSE 0

\* scan::number(s, min, max): the value of min to max digits and the rest.
number(s, min, max) ==
  Only({ IF n < min THEN Err("Invalid")
         ELSE Ok([v |-> DigitsVal(SubSeq(s, 1, n)), rest |-> SubSeq(s, n + 1, Len(s))]) :
         n \in {DigitRun(s, max)} })

\* scan::short_month0 and scan::short_weekday, on the first three characters.
ShortMonths ==
  << <<"J", "a", "n">>, <<"F", "e", "b">>, <<"M", "a", "r">>, <<"A", "p", "r">>, <<"M", "a", "y">>, <<"J", "u", "n">>, <<"J", "u", "l">>, <<"A", "u", "g">>, <<"S", "e", "p">>, <<"O", "c", "t">>, <<"N", "o", "v">>, <<"D", "e", "c">> >>
ShortWeekdays ==
  << <<"S", "u", "n">>, <<"M", "o", "n">>, <<"T", "u", "e">>, <<"W", "e", "d">>, <<"T", "h", "u">>, <<"F", "r", "i">>, <<"S", "a", "t">> >>

IndexOf(names, s) ==
  IF Len(s) >= 3 /\ \E i \in 1..Len(names) : names[i] = SubSeq(s, 1, 3)
  THEN CHOOSE i \in 1..Len(names) : names[i] = SubSeq(s, 1, 3)
  ELSE 0

\* scan::colon_or_space
colon_or_space(s) == IF s # <<>> /\ s[1] = ":" THEN Tail(s) ELSE TrimStart(s)

\* scan::timezone_offset with scan::colon_or_space: a sign, two digits of
\* hours, an optional ':' or whitespace, two digits of minutes; in seconds.
timezone_offset(s) ==
  IF s = <<>> \/ s[1] \notin {"+", "-"} THEN Err("Invalid")
  ELSE Only({ IF h.tag = "Err" THEN h
              ELSE Only({ IF m.tag = "Err" THEN m
                          ELSE IF m.val.v > 59 THEN Err("OutOfRange")
                          ELSE Ok([v |-> (IF s[1] = "-" THEN -1 ELSE 1)
                                           * (h.val.v * 3600 + m.val.v * 60),
                                   rest |-> m.val.rest]) :
                          m \in {number(colon_or_space(h.val.rest), 2, 2)} }) :
              h \in {number(Tail(s), 2, 2)} })

\* The most digits a numeric specifier takes.
NumericWidth(item) ==
  CASE item = "%Y" -> 4 [] OTHER -> 2

\* The number of a numeric item: a year may have a sign, and then any number
\* of digits.
SignedNumber(item, t) ==
  IF item = "%Y" /\ t # <<>> /\ t[1] \in {"+", "-"}
  THEN Only({ IF n.tag = "Err" THEN n
              ELSE Ok([v |-> IF t[1] = "-" THEN 0 - n.val.v ELSE n.val.v,
                       rest |-> n.val.rest]) :
              n \in {number(Tail(t), 1, Len(t))} })
  ELSE number(t, 1, NumericWidth(item))

\* Parsed::set_month, set_day, set_hour, set_minute and set_second refuse a
\* value out of the field's range in the releases that check on set.
Refused(item, v) ==
  /\ chrono.ranges = "on_set"
  /\ \/ item = "%m" /\ v \notin 1..12
     \/ item = "%d" /\ v \notin 1..31
     \/ item = "%H" /\ v \notin 0..23
     \/ item = "%M" /\ v \notin 0..59
     \/ item = "%S" /\ v \notin 0..60

\* One numeric item: leading whitespace is skipped, the digits are taken
\* and the field is set; set_hour12 refuses an hour out of 1..12 always.
ParseNumeric(item, st) ==
  Only({ IF n.tag = "Err" THEN n
         ELSE IF Refused(item, n.val.v) THEN Err("OutOfRange")
         ELSE CASE item = "%Y" ->
                     Ok([s |-> n.val.rest, p |-> [st.p EXCEPT !.year = Some(n.val.v)]])
                [] item = "%m" ->
                     Ok([s |-> n.val.rest, p |-> [st.p EXCEPT !.month = Some(n.val.v)]])
                [] item = "%d" ->
                     Ok([s |-> n.val.rest, p |-> [st.p EXCEPT !.day = Some(n.val.v)]])
                [] item = "%M" ->
                     Ok([s |-> n.val.rest, p |-> [st.p EXCEPT !.minute = Some(n.val.v)]])
                [] item = "%S" ->
                     Ok([s |-> n.val.rest, p |-> [st.p EXCEPT !.second = Some(n.val.v)]])
                [] item = "%H" ->
                     Ok([s |-> n.val.rest,
                         p |-> [st.p EXCEPT !.hour_div_12 = Some(n.val.v \div 12),
                                            !.hour_mod_12 = Some(n.val.v % 12)]])
                [] item = "%I" ->
                     IF n.val.v < 1 \/ n.val.v > 12 THEN Err("OutOfRange")
                     ELSE Ok([s |-> n.val.rest,
                              p |-> [st.p EXCEPT !.hour_mod_12 = Some(n.val.v % 12)]]) :
         n \in {SignedNumber(item, Skip(st.s))} })

\* One item of a layout on the rest of the input; the last arm is a literal
\* character of the layout, the space of an exact release included.
ParseItem(item, st) ==
  CASE item \in {"%Y", "%m", "%d", "%H", "%I", "%M", "%S"} -> ParseNumeric(item, st)
    [] item = " " /\ chrono.whitespace = "lenient" -> Ok([s |-> TrimStart(st.s), p |-> st.p])
    [] item = "%b" ->
         Only({ IF m = 0 THEN Err("Invalid")
                ELSE Ok([s |-> SubSeq(st.s, 4, Len(st.s)), p |-> [st.p EXCEPT !.month = Some(m)]]) :
                m \in {IndexOf(ShortMonths, st.s)} })
    [] item = "%a" ->
         Only({ IF w = 0 THEN Err("Invalid")
                ELSE Ok([s |-> SubSeq(st.s, 4, Len(st.s)),
                         p |-> [st.p EXCEPT !.weekday = Some(w - 1)]]) :
                w \in {IndexOf(ShortWeekdays, st.s)} })
    [] item = "%p" ->
         IF Len(st.s) < 2 THEN Err("TooShort")
         ELSE IF st.s[1] \in {"A", "a", "P", "p"} /\ st.s[2] \in {"M", "m"}
         THEN Ok([s |-> SubSeq(st.s, 3, Len(st.s)),
                  p |-> [st.p EXCEPT !.hour_div_12 =
                           Some(IF st.s[1] \in {"P", "p"} THEN 1 ELSE 0)]])
         ELSE Err("Invalid")
    [] item = "%.3f" ->
         IF st.s # <<>> /\ st.s[1] = "."
         THEN Only({ IF n.tag = "Err" THEN n
                     ELSE Ok([s |-> n.val.rest,
                              p |-> [st.p EXCEPT !.nanosecond =
                                       Some(SubSeq(st.s, 2, Len(st.s) - Len(n.val.rest)))]]) :
                     n \in {number(Tail(st.s), 1, 9)} })
         ELSE Ok(st)
    [] item \in {"%z", "%:z"} ->
         Only({ IF o.tag = "Err" THEN o
                ELSE Ok([s |-> o.val.rest, p |-> [st.p EXCEPT !.offset = Some(o.val.v)]]) :
                o \in {timezone_offset(Skip(st.s))} })
    [] OTHER ->
         IF st.s = <<>> THEN Err("TooShort")
         ELSE IF st.s[1] # item THEN Err("Invalid")
         ELSE Ok([s |-> Tail(st.s), p |-> st.p])

RECURSIVE ParseItems(_, _, _)
\* format::parse: the items in order, then nothing may be left of the input.
ParseItems(layout, i, st) ==
  IF i > Len(layout)
  THEN IF st.s = <<>> THEN Ok(st.p) ELSE Err("TooLong")
  ELSE Only({ IF r.tag = "Ok" THEN ParseItems(layout, i + 1, r.val) ELSE r :
              r \in {ParseItem(layout[i], st)} })

format_parse(s, layout) == ParseItems(layout, 1, [s |-> s, p |-> Parsed0])

\* The days of a month of the proleptic Gregorian calendar.
DaysIn(y, m) ==
  IF m = 2
  THEN IF y % 4 = 0 /\ (y % 100 # 0 \/ y % 400 = 0) THEN 29 ELSE 28
  ELSE IF m \in {4, 6, 9, 11} THEN 30 ELSE 31

\* The day of the week of a date, 0 for Sunday.
WeekdayOf(y, m, d) ==
  LET t == <<0, 3, 2, 5, 0, 3, 5, 1, 4, 6, 2, 4>>
      yy == IF m < 3 THEN y - 1 ELSE y
  IN  (yy + (yy \div 4) - (yy \div 100) + (yy \div 400) + t[m] + d) % 7

\* Parsed::to_naive_date: year, month and day are needed and must be a date
\* of the calendar; a weekday that was parsed must be that of the date.
to_naive_date(p) ==
  IF p.year = None \/ p.month = None \/ p.day = None THEN Err("NotEnough")
  ELSE LET y == p.year.val
           m == p.month.val
           d == p.day.val
       IN  IF m < 1 \/ m > 12 \/ d < 1 \/ d > DaysIn(y, m) THEN Err("OutOfRange")
           ELSE IF p.weekday # None /\ p.weekday.val # WeekdayOf(y, m, d)
           THEN Err("Impossible")
           ELSE Ok([year |-> y, month |-> m, day |-> d])

\* Parsed::to_naive_time: both halves of the hour and the minute are needed;
\* the second is 0 when it was not parsed.
to_naive_time(p) ==
  IF p.hour_div_12 = None \/ p.hour_mod_12 = None \/ p.minute = None THEN Err("NotEnough")
  ELSE IF p.hour_div_12.val > 1 \/ p.minute.val > 59 THEN Err("OutOfRange")
  ELSE IF p.second # None /\ p.second.val > 60 THEN Err("OutOfRange")
  ELSE Ok([hour |-> p.hour_div_12.val * 12 + p.hour_mod_12.val,
           minute |-> p.minute.val,
           second |-> IF p.second = None THEN 0 ELSE p.second.val,
           nanosecond |-> IF p.nanosecond = None THEN <<>> ELSE p.nanosecond.val])

\* Parsed::to_naive_datetime_with_offset: the date, then the time.
to_naive_datetime(p, offset) ==
  Only({ IF d.tag = "Err" THEN d
         ELSE IF t.tag = "Err" THEN t
         ELSE Ok([date |-> d.val, time |-> t.val, minus_offset |-> offset]) :
         d \in {to_naive_date(p)}, t \in {to_naive_time(p)} })

\* NaiveDateTime::parse_from_str
NaiveDateTime_parse_from_str(s, layout) ==
  Only({ IF p.tag = "Err" THEN p ELSE to_naive_datetime(p.val, 0) :
         p \in {format_parse(s, layout)} })

\* DateTime::parse_from_str(..).naive_utc(): the offset is needed as well;
\* the value is the local date and time less the offset, kept as the pair.
DateTime_parse_from_str(s, layout) ==
  Only({ IF p.tag = "Err" THEN p
         ELSE IF p.val.offset = None THEN Err("NotEnough")
         ELSE to_naive_datetime(p.val, p.val.offset.val) :
         p \in {format_parse(s, layout)} })

\* NaiveDate::parse_from_str
NaiveDate_parse_from_str(s, layout) ==
  Only({ IF p.tag = "Err" THEN p ELSE to_naive_date(p.val) :
         p \in {format_parse(s, layout)} })

\* NaiveTime::parse_from_str
NaiveTime_parse_from_str(s, layout) ==
  Only({ IF p.tag = "Err" THEN p ELSE to_naive_time(p.val) :
         p \in {format_parse(s, layout)} })

\* The layouts of a format_type in their listed order, each a sequence of
\* chrono's items: a specifier, a space or a literal character.
formats(ft) ==
  CASE ft = "tg" ->
         << <<"%d", "/", "%m", "/", "%Y", " ", "%H", ":", "%M", ":", "%S">>,
            <<"%d", "/", "%m", "/", "%Y", " ", "%H", ":", "%M">>,
            <<"%d", "/", "%m", "/", "%Y", " ", "%I", ":", "%M", ":", "%S", " ", "%p">>,
            <<"%d", "/", "%m", "/", "%Y", " ", "%I", ":", "%M", " ", "%p">>,
            <<"%Y", "/", "%m", "/", "%d", " ", "%H", ":", "%M", ":", "%S">>,
            <<"%Y", "/", "%m", "/", "%d", " ", "%H", ":", "%M">>,
            <<"%Y", "/", "%m", "/", "%d", " ", "%I", ":", "%M", ":", "%S", " ", "%p">>,
            <<"%Y", "/", "%m", "/", "%d", " ", "%I", ":", "%M", " ", "%p">>,
            <<"%d", "/", "%m", "/", "%Y">>,
            <<"%Y", "/", "%m", "/", "%d">>,
            <<"%H", ":", "%M", ":", "%S">>,
            <<"%H", ":", "%M">>,
            <<"%I", ":", "%M", ":", "%S", " ", "%p">>,
            <<"%I", ":", "%M", " ", "%p">> >>
    [] ft = "ta" ->
         << <<"%m", "/", "%d", "/", "%Y", " ", "%I", ":", "%M", ":", "%S", " ", "%p">>,
            <<"%m", "/", "%d", "/", "%Y", " ", "%I", ":", "%M", " ", "%p">>,
            <<"%m", "/", "%d", "/", "%Y", " ", "%H", ":", "%M", ":", "%S">>,
            <<"%m", "/", "%d", "/", "%Y", " ", "%H", ":", "%M">>,
            <<"%m", "/", "%d", "/", "%Y">> >>
    [] ft = "te" ->
         << <<"%a", ",", " ", "%d", " ", "%b", " ", "%Y", " ", "%H", ":", "%M", ":", "%S", " ", "%z">>,
            <<"%d", " ", "%b", " ", "%Y", " ", "%H", ":", "%M", ":", "%S", " ", "%z">>,
            <<"%d", " ", "%b", " ", "%Y">> >>
    [] ft = "th" ->
         << <<"%d", "/", "%b", "/", "%Y", ":", "%H", ":", "%M", ":", "%S", " ", "%z">> >>
    [] ft = "ts" ->
         << <<"%b", " ", "%d", " ", "%Y", " ", "%H", ":", "%M", ":", "%S">> >>
    [] ft = "ti" ->
         << <<"%Y", "-", "%m", "-", "%d", "T", "%H", ":", "%M", ":", "%S", "%.3f", "%:z">>,
            <<"%Y", "-", "%m", "-", "%d", "T", "%H", ":", "%M", ":", "%S", "%:z">>,
            <<"%Y", "-", "%m", "-", "%d", "T", "%H", ":", "%M", ":", "%S", "%.3f">>,
            <<"%Y", "-", "%m", "-", "%d", "T", "%H", ":", "%M", ":", "%S">>,
            <<"%Y", "-", "%m", "-", "%d">> >>

\* The first pass: a layout with %z or %:z through DateTime, any other
\* through NaiveDateTime.
AsDateTime(s, layout) ==
  IF \E i \in 1..Len(layout) : layout[i] \in {"%z", "%:z"}
  THEN DateTime_parse_from_str(s, layout)
  ELSE NaiveDateTime_parse_from_str(s, layout)

RECURSIVE TryDateTime(_, _, _)
TryDateTime(s, layouts, i) ==
  IF i > Len(layouts) THEN None
  ELSE Only({ IF r.tag = "Ok" THEN Some(Box("NaiveDateTime", r.val))
              ELSE TryDateTime(s, layouts, i + 1) :
              r \in {AsDateTime(s, layouts[i])} })

RECURSIVE TryDate(_, _, _)
TryDate(s, layouts, i) ==
  IF i > Len(layouts) THEN None
  ELSE Only({ IF r.tag = "Ok" THEN Some(Box("NaiveDate", r.val))
              ELSE TryDate(s, layouts, i + 1) :
              r \in {NaiveDate_parse_from_str(s, layouts[i])} })

RECURSIVE TryTime(_, _, _)
TryTime(s, layouts, i) ==
  IF i > Len(layouts) THEN None
  ELSE Only({ IF r.tag = "Ok" THEN Some(Box("NaiveTime", r.val))
              ELSE TryTime(s, layouts, i + 1) :
              r \in {NaiveTime_parse_from_str(s, layouts[i])} })

\* The first of three results that is not None, TypeConversionFailed if
\* none is.
FirstOf(a, b, c) ==
  IF a # None THEN Ok(a.val)
  ELSE IF b # None THEN Ok(b.val)
  ELSE IF c # None THEN Ok(c.val)
  ELSE TypeConversionFailed

\* The loop over the layouts as dates put before the loop over them as
\* dates and times.
DateTimeConverter_convert_DateFirst(ft, s) ==
  IF ft \notin DateTimeTags THEN TypeConversionFailed
  ELSE Only({ FirstOf(d, dt, t) :
              dt \in {TryDateTime(s, formats(ft), 1)},
              d \in {TryDate(s, formats(ft), 1)},
              t \in {TryTime(s, formats(ft), 1)} })

\* DateTimeConverter::convert: the three loops over the layouts, the second
\* of use only when the first returned nothing, the third when the second.
DateTimeConverter_convert(ft, s) ==
  IF ft \notin DateTimeTags THEN TypeConversionFailed
  ELSE Only({ FirstOf(dt, d, t) :
              dt \in {TryDateTime(s, formats(ft), 1)},
              d \in {TryDate(s, formats(ft), 1)},
              t \in {TryTime(s, formats(ft), 1)} })

\* TypeConverter::convert
convert(converter, s) ==
  CASE converter.name = "IntConverter" -> IntConverter_convert(s)
    [] converter.name = "FloatConverter" -> FloatConverter_convert(s)
    [] converter.name = "WordConverter" -> WordConverter_convert(s)
    [] converter.name = "DateTimeConverter" -> DateTimeConverter_convert(converter.format_type, s)
    [] converter.name = "CustomConverter" -> Ok(Box("Custom", s))

\* The fragment of a date/time converter, kept as one opaque lexeme.
DateTimeFragment(ft) ==
  CASE ft = "tg" -> "<tg>" [] ft = "ta" -> "<ta>" [] ft = "te" -> "<te>"
    [] ft = "th" -> "<th>" [] ft = "ts" -> "<ts>" [] ft = "ti" -> "<ti>"

\* TypeConverter::get_pattern, the regex source as a sequence of lexemes.
get_pattern(converter) ==
  CASE converter.name = "IntConverter" -> Some(<<"-", "?", "\\d", "+">>)
    [] converter.name = "FloatConverter" ->
         Some(<<"-", "?", "\\d", "*", "\\.", "?", "\\d", "+">>)
    [] converter.name = "WordConverter" -> Some(<<"\\w", "+">>)
    [] converter.name = "DateTimeConverter" ->
         IF converter.format_type \in DateTimeTags
         THEN Some(<<DateTimeFragment(converter.format_type)>>)
         ELSE None
    [] converter.name = "CustomConverter" ->
         IF converter.format_type = "digit" THEN Some(<<"\\d">>) ELSE None

DEFAULT_TYPES ==
  [k \in {<<"d">>, <<"f">>, <<"w">>, <<"t", "g">>, <<"t", "a">>, <<"t", "e">>,
          <<"t", "h">>, <<"t", "s">>, <<"t", "i">>} |->
     CASE k = <<"d">> -> IntConverter
       [] k = <<"f">> -> FloatConverter
       [] k = <<"w">> -> WordConverter
       [] k = <<"t", "g">> -> DateTimeConverter("tg")
       [] k = <<"t", "a">> -> DateTimeConverter("ta")
       [] k = <<"t", "e">> -> DateTimeConverter("te")
       [] k = <<"t", "h">> -> DateTimeConverter("th")
       [] k = <<"t", "s">> -> DateTimeConverter("ts")
       [] k = <<"t", "i">> -> DateTimeConverter("ti")]

(***************************************************************************)
(* Parser::parse_format                                                    *)
(***************************************************************************)
DefaultFieldPattern == <<"[^\\s]", "+">>

\* The replacements, were ']' kept.
NormalizeName_KeepClose(name) ==
  Flatten([i \in 1..Len(name) |->
             CASE name[i] = "." -> <<"_", "_">>
               [] name[i] = "[" -> <<"_", "_">>
               [] OTHER -> <<name[i]>>])

\* String::replace(".", "__").replace("[", "__").replace("]", "")
NormalizeName(name) ==
  Flatten([i \in 1..Len(name) |->
             CASE name[i] = "." -> <<"_", "_">>
               [] name[i] = "[" -> <<"_", "_">>
               [] name[i] = "]" -> <<>>
               [] OTHER -> <<name[i]>>])

ScanStart ==
  [field_map |-> EmptyMap, field_types |-> EmptyMap, group_count |-> 0,
   in_field |-> FALSE, in_type |-> FALSE, current_field |-> <<>>,
   current_type |-> <<>>, pattern |-> <<>>, brace_count |-> 0]

\* The arm of '}' that closes a field, were a tag missing from the registry to
\* fall back to the default pattern.
CloseField_NoLookup(st, type_converters) ==
  LET group_count == st.group_count + 1
      typed == st.current_type # <<>>
      field_name == IF st.current_field = <<>>
                    THEN DecStr(group_count - 1)
                    ELSE NormalizeName(st.current_field)
      type_pattern ==
        IF typed /\ st.current_type \in DOMAIN type_converters
        THEN LET p == get_pattern(type_converters[st.current_type])
             IN  IF p.tag = "Some" THEN p.val ELSE DefaultFieldPattern
        ELSE DefaultFieldPattern
  IN  Ok([st EXCEPT
            !.in_field = FALSE,
            !.in_type = FALSE,
            !.group_count = group_count,
            !.brace_count = st.brace_count - 1,
            !.field_map = Insert(st.field_map, field_name, group_count),
            !.field_types = IF typed
                            THEN Insert(st.field_types, field_name, st.current_type)
                            ELSE st.field_types,
            !.pattern = st.pattern \o <<"(">> \o type_pattern \o <<")">>])

\* The arm of '}' that closes a field, were an anonymous field named by its
\* one-based ordinal.
CloseField_OneBased(st, type_converters) ==
  LET group_count == st.group_count + 1
      typed == st.current_type # <<>>
      field_name == IF st.current_field = <<>>
                    THEN DecStr(group_count)
                    ELSE NormalizeName(st.current_field)
      type_pattern ==
        IF typed
        THEN LET p == get_pattern(type_converters[st.current_type])
             IN  IF p.tag = "Some" THEN p.val ELSE DefaultFieldPattern
        ELSE DefaultFieldPattern
  IN  IF typed /\ st.current_type \notin DOMAIN type_converters
      THEN InvalidFormat
      ELSE Ok([st EXCEPT
                 !.in_field = FALSE,
                 !.in_type = FALSE,
                 !.group_count = group_count,
                 !.brace_count = st.brace_count - 1,
                 !.field_map = Insert(st.field_map, field_name, group_count),
                 !.field_types = IF typed
                                 THEN Insert(st.field_types, field_name, st.current_type)
                                 ELSE st.field_types,
                 !.pattern = st.pattern \o <<"(">> \o type_pattern \o <<")">>])

\* The arm of '}' that closes a field.
CloseField(st, type_converters) ==
  LET group_count == st.group_count + 1
      typed == st.current_type # <<>>
      field_name == IF st.current_field = <<>>
                    THEN DecStr(group_count - 1)
                    ELSE NormalizeName(st.current_field)
      type_pattern ==
        IF typed
        THEN LET p == get_pattern(type_converters[st.current_type])
             IN  IF p.tag = "Some" THEN p.val ELSE DefaultFieldPattern
        ELSE DefaultFieldPattern
  IN  IF typed /\ st.current_type \notin DOMAIN type_converters
      THEN InvalidFormat
      ELSE Ok([st EXCEPT
                 !.in_field = FALSE,
                 !.in_type = FALSE,
                 !.group_count = group_count,
                 !.brace_count = st.brace_count - 1,
                 !.field_map = Insert(st.field_map, field_name, group_count),
                 !.field_types = IF typed
                                 THEN Insert(st.field_types, field_name, st.current_type)
                                 ELSE st.field_types,
                 !.pattern = st.pattern \o <<"(">> \o type_pattern \o <<")">>])

\* The arms of "{{" and "}}", were they to push nothing.
DoubledBrace_Dropped(st, lex) == Ok([n |-> 2, st |-> st])

\* The arms of "{{" and "}}": both characters are consumed and the escaped
\* brace lex is pushed, inside a field as well as outside.
DoubledBrace(st, lex) ==
  Ok([n |-> 2, st |-> [st EXCEPT !.pattern = Append(st.pattern, lex)]])

\* The arm of a single '{'.
OpenField(st) ==
  IF st.in_field
  THEN InvalidFormat
  ELSE Ok([n |-> 1, st |-> [st EXCEPT !.in_field = TRUE, !.in_type = FALSE,
                                        !.current_field = <<>>,
                                        !.current_type = <<>>,
                                        !.brace_count = st.brace_count + 1]])

\* The arm of a single '}' outside a field, were it to push the brace.
StrayClose_Accepted(st) ==
  Ok([n |-> 1, st |-> [st EXCEPT !.pattern = Append(st.pattern, "\\}")]])

\* The arm of a single '}' outside a field.
StrayClose(st) == InvalidFormat

\* The arm of every other character.
PushChar(st, c) ==
  IF st.in_field
  THEN IF st.in_type
       THEN Ok([n |-> 1, st |-> [st EXCEPT !.current_type = Append(st.current_type, c)]])
       ELSE Ok([n |-> 1, st |-> [st EXCEPT !.current_field = Append(st.current_field, c)]])
  ELSE Ok([n |-> 1, st |-> [st EXCEPT !.pattern = Append(st.pattern, c)]])

\* One turn of the while loop on the character at position i: the number of
\* characters consumed and the state after it, or the error returned.
ScanStep(fmt, i, st, type_converters) ==
  LET c == fmt[i]
      peek == IF i < Len(fmt) THEN fmt[i + 1] ELSE ""
  IN  CASE c = "{" -> IF peek = "{" THEN DoubledBrace(st, "\\{") ELSE OpenField(st)
        [] c = "}" ->
             IF peek = "}" THEN DoubledBrace(st, "\\}")
             ELSE IF st.in_field
             THEN LET r == CloseField(st, type_converters)
                  IN  IF r.tag = "Ok" THEN Ok([n |-> 1, st |-> r.val]) ELSE r
             ELSE StrayClose(st)
        [] c = ":" /\ st.in_field -> Ok([n |-> 1, st |-> [st EXCEPT !.in_type = TRUE]])
        [] OTHER -> PushChar(st, c)

RECURSIVE ScanFrom(_, _, _, _)
ScanFrom(fmt, i, st, type_converters) ==
  IF i > Len(fmt)
  THEN IF st.brace_count # 0 \/ st.in_field
       THEN InvalidFormat
       ELSE Ok([exact_pattern |-> <<"^">> \o st.pattern \o <<"$">>,
                search_pattern |-> st.pattern,
                field_map |-> st.field_map,
                field_types |-> st.field_types])
  ELSE LET r == ScanStep(fmt, i, st, type_converters)
       IN  IF r.tag = "Ok"
           THEN ScanFrom(fmt, i + r.val.n, r.val.st, type_converters)
           ELSE r

parse_format(fmt, type_converters) == ScanFrom(fmt, 1, ScanStart, type_converters)

(***************************************************************************)
(* The regex crate, for the syntax the templates of this model produce: a  *)
(* pattern is a sequence of lexemes; '(' ')' group, '^' '$' assert, a      *)
(* one-character item may carry '?', '*' or '+'.                           *)
(***************************************************************************)
Quantifier == {"?", "*", "+"}

Item(k, g, cls, min, many) == [k |-> k, g |-> g, cls |-> cls, min |-> min, many |-> many]

RECURSIVE BuildFrom(_, _, _, _, _)
\* The parser of the regex syntax: open holds the groups not yet closed.  A
\* repetition lexeme is only ever met after a one-character item here (the
\* templates hold no '?', '*' or '+'); anywhere else it has nothing to
\* repeat, as an unbalanced parenthesis it is a syntax error.
BuildFrom(src, i, open, ngroups, items) ==
  IF i > Len(src)
  THEN IF open # <<>> THEN InvalidFormat ELSE Ok([prog |-> items, ngroups |-> ngroups])
  ELSE LET t == src[i]
           q == IF i < Len(src) /\ src[i + 1] \in Quantifier THEN src[i + 1] ELSE ""
       IN  CASE t = "(" ->
                  BuildFrom(src, i + 1, <<ngroups + 1>> \o open, ngroups + 1,
                            Append(items, Item("open", ngroups + 1, "", 0, FALSE)))
             [] t = ")" ->
                  IF open = <<>> THEN InvalidFormat
                  ELSE BuildFrom(src, i + 1, Tail(open), ngroups,
                                 Append(items, Item("close", Head(open), "", 0, FALSE)))
             [] t = "^" -> BuildFrom(src, i + 1, open, ngroups,
                                     Append(items, Item("start", 0, "", 0, FALSE)))
             [] t = "$" -> BuildFrom(src, i + 1, open, ngroups,
                                     Append(items, Item("end", 0, "", 0, FALSE)))
             [] t \in Quantifier -> InvalidFormat
             [] OTHER ->
                  BuildFrom(src, IF q = "" THEN i + 1 ELSE i + 2, open, ngroups,
                            Append(items, Item("char", 0, t,
                                               IF q \in {"?", "*"} THEN 0 ELSE 1,
                                               q \in {"*", "+"})))

\* RegexBuilder::new(src).case_insensitive(ci).build()
\* RegexBuilder::build, were the case_insensitive flag dropped.
RegexBuild_CaseSensitive(src, ci) ==
  LET r == BuildFrom(src, 1, <<>>, 0, <<>>)
  IN  IF r.tag = "Ok"
      THEN Ok([src |-> src, ci |-> FALSE, prog |-> r.val.prog, ngroups |-> r.val.ngroups])
      ELSE r

RegexBuild(src, ci) ==
  LET r == BuildFrom(src, 1, <<>>, 0, <<>>)
  IN  IF r.tag = "Ok"
      THEN Ok([src |-> src, ci |-> ci, prog |-> r.val.prog, ngroups |-> r.val.ngroups])
      ELSE r

\* Whether the one-character item cls matches the character c.  No text of
\* this model matches the fragment of a date/time converter.
ClassMatch(cls, c, ci) ==
  CASE cls = "." -> c # "\n"
    [] cls = "\\d" -> c \in AsciiDigit \cup OtherDigit
    [] cls = "\\w" -> c \in AsciiDigit \cup OtherDigit \cup Lower \cup Upper \cup {"_"}
    [] cls = "[^\\s]" -> c \notin Whitespace
    [] cls = "\\{" -> c = "{"
    [] cls = "\\}" -> c = "}"
    [] cls = "\\." -> c = "."
    [] cls \in {DateTimeFragment(ft) : ft \in DateTimeTags} -> FALSE
    [] OTHER -> IF ci THEN Fold(c) = Fold(cls) ELSE c = cls

NoMatch == [ok |-> FALSE, end |-> 0, caps |-> <<>>]

RECURSIVE RunLen(_, _, _, _, _)
\* How many characters from position pos on (0-based) match the item, at most limit.
RunLen(re, it, txt, pos, limit) ==
  IF limit = 0 \/ pos >= Len(txt) \/ ~ClassMatch(it.cls, txt[pos + 1], re.ci)
  THEN 0
  ELSE 1 + RunLen(re, it, txt, pos + 1, limit - 1)

RECURSIVE MatchFrom(_, _, _, _, _)
RECURSIVE TryLen(_, _, _, _, _, _)
\* Leftmost-first matching of the items from the k-th on at position pos:
\* a greedy repetition tries its longest run first.  caps[g] is the span of
\* group g in characters, <<-1, -1>> while the group has not taken part.
MatchFrom(re, k, txt, pos, caps) ==
  IF k > Len(re.prog)
  THEN [ok |-> TRUE, end |-> pos, caps |-> caps]
  ELSE LET it == re.prog[k]
       IN  CASE it.k = "open" ->
                  MatchFrom(re, k + 1, txt, pos, [caps EXCEPT ![it.g] = <<pos, -1>>])
             [] it.k = "close" ->
                  MatchFrom(re, k + 1, txt, pos, [caps EXCEPT ![it.g] = <<caps[it.g][1], pos>>])
             [] it.k = "start" ->
                  IF pos = 0 THEN MatchFrom(re, k + 1, txt, pos, caps) ELSE NoMatch
             [] it.k = "end" ->
                  IF pos = Len(txt) THEN MatchFrom(re, k + 1, txt, pos, caps) ELSE NoMatch
             [] it.k = "char" ->
                  TryLen(re, k, txt, pos, caps,
                         RunLen(re, it, txt, pos, IF it.many THEN Len(txt) ELSE 1))

TryLen(re, k, txt, pos, caps, n) ==
  IF n < re.prog[k].min
  THEN NoMatch
  ELSE LET r == MatchFrom(re, k + 1, txt, pos + n, caps)
       IN  IF r.ok THEN r ELSE TryLen(re, k, txt, pos, caps, n - 1)

RECURSIVE FindAt(_, _, _)
\* The leftmost match starting at or after position start, with its groups
\* (group 0 is the whole match), or NoMatch.
FindAt(re, txt, start) ==
  IF start > Len(txt)
  THEN NoMatch
  ELSE LET r == MatchFrom(re, 1, txt, start, [g \in 1..re.ngroups |-> <<-1, -1>>])
       IN  IF r.ok
           THEN [ok |-> TRUE, end |-> r.end, start |-> start, text |-> txt, caps |-> r.caps]
           ELSE FindAt(re, txt, start + 1)

\* Regex::captures
captures(re, txt) == FindAt(re, txt, 0)

RECURSIVE CapturesFrom_Overlapping(_, _, _, _)
RECURSIVE CapturesFrom(_, _, _, _)
\* Regex::captures_iter: successive non-overlapping matches; an empty match
\* moves the scan on by one character and is dropped when it sits at the end
\* of the match before it.
\* The iteration, were the scan to resume one character after the start of
\* the previous match.
CapturesFrom_Overlapping(re, txt, last_end, last_match) ==
  LET m == FindAt(re, txt, last_end)
  IN  IF ~m.ok THEN <<>>
      ELSE <<m>> \o CapturesFrom_Overlapping(re, txt, m.start + 1, m.end)

CapturesFrom(re, txt, last_end, last_match) ==
  LET m == FindAt(re, txt, last_end)
  IN  IF ~m.ok THEN <<>>
      ELSE IF m.start = m.end
      THEN IF m.end = last_match
           THEN CapturesFrom(re, txt, m.end + 1, last_match)
           ELSE <<m>> \o CapturesFrom(re, txt, m.end + 1, m.end)
      ELSE <<m>> \o CapturesFrom(re, txt, m.end, m.end)

captures_iter(re, txt) == CapturesFrom(re, txt, 0, -1)

\* Captures::get(i): the substring and the byte span of group i, None when
\* the pattern has no such group or the group took no part in the match.
Captures_get(caps, i) ==
  IF i \in DOMAIN caps.caps /\ caps.caps[i][2] >= 0
  THEN Some([str |-> SubSeq(caps.text, caps.caps[i][1] + 1, caps.caps[i][2]),
             start |-> ByteOffset(caps.text, caps.caps[i][1]),
             end |-> ByteOffset(caps.text, caps.caps[i][2])])
  ELSE None

(***************************************************************************)
(* Parser::new_with_types, Parser::new                                     *)
(***************************************************************************)
\* The converter the match arms of new / new_with_types build for a key of
\* DEFAULT_TYPES.
BuiltinConverter(k) ==
  CASE k = <<"d">> -> Some(IntConverter)
    [] k = <<"f">> -> Some(FloatConverter)
    [] k = <<"w">> -> Some(WordConverter)
    [] k = <<"t", "g">> -> Some(DateTimeConverter("tg"))
    [] k = <<"t", "a">> -> Some(DateTimeConverter("ta"))
    [] k = <<"t", "e">> -> Some(DateTimeConverter("te"))
    [] k = <<"t", "h">> -> Some(DateTimeConverter("th"))
    [] k = <<"t", "s">> -> Some(DateTimeConverter("ts"))
    [] k = <<"t", "i">> -> Some(DateTimeConverter("ti"))
    [] OTHER -> None

\* The merge, were a built-in converter to win over the caller's.
MergeTypes_BuiltinWins(extra) ==
  LET kept == {k \in DOMAIN DEFAULT_TYPES : BuiltinConverter(k).tag = "Some"}
  IN  [k \in kept \cup DOMAIN extra |->
         IF k \in kept THEN BuiltinConverter(k).val ELSE extra[k]]

\* The merge of the built-in converters with the caller's.
MergeTypes(extra) ==
  LET kept == {k \in DOMAIN DEFAULT_TYPES :
                 k \notin DOMAIN extra /\ BuiltinConverter(k).tag = "Some"}
  IN  [k \in kept \cup DOMAIN extra |->
         IF k \in DOMAIN extra THEN extra[k] ELSE BuiltinConverter(k).val]

\* Every order in which a HashMap with these keys may be iterated.
Orders(keys) ==
  {o \in [1..Cardinality(keys) -> keys] : \A k \in keys : \E i \in DOMAIN o : o[i] = k}

\* field_order is the iteration order of field_map: it is fixed while the
\* map is not modified, and not determined by the keys.
new_with_types(fmt, cs, extra, field_order) ==
  LET all_types == MergeTypes(extra)
      f == parse_format(fmt, all_types)
      pattern == RegexBuild(f.val.exact_pattern, ~cs)
      search_pattern == RegexBuild(f.val.search_pattern, ~cs)
  IN  IF f.tag = "Err" THEN f
      ELSE IF pattern.tag = "Err" THEN InvalidFormat
      ELSE IF search_pattern.tag = "Err" THEN InvalidFormat
      ELSE Ok([pattern |-> pattern.val,
               search_pattern |-> search_pattern.val,
               field_map |-> f.val.field_map,
               field_order |-> field_order,
               field_types |-> f.val.field_types,
               type_converters |-> all_types])

DefaultTypes ==
  LET keys == {k \in DOMAIN DEFAULT_TYPES : BuiltinConverter(k).tag = "Some"}
  IN  [k \in keys |-> BuiltinConverter(k).val]

new(fmt, cs, field_order) == new_with_types(fmt, cs, DefaultTypes, field_order)

\* The keys of the field table Parser::new builds for the template.
FieldKeys(fmt) ==
  LET f == parse_format(fmt, MergeTypes(DefaultTypes))
  IN  IF f.tag = "Ok" THEN DOMAIN f.val.field_map ELSE {}

(***************************************************************************)
(* Parser::process_captures, parse, search, findall, ParseResult::get      *)
(***************************************************************************)
RECURSIVE ConvertFrom_SkipFailed(_, _, _, _)
\* ConvertFrom with a failed conversion dropped instead of returned.
ConvertFrom_SkipFailed(p, fixed, i, converted) ==
  IF i > Len(fixed)
  THEN Ok(converted)
  ELSE LET typed == {fn \in DOMAIN p.field_map :
                       /\ p.field_map[fn] - 1 = i - 1
                       /\ fn \in DOMAIN p.field_types
                       /\ p.field_types[fn] \in DOMAIN p.type_converters}
       IN  IF typed = {}
           THEN ConvertFrom_SkipFailed(p, fixed, i + 1, converted)
           ELSE LET fn == CHOOSE x \in typed : TRUE
                    r == convert(p.type_converters[p.field_types[fn]], fixed[i])
                IN  ConvertFrom_SkipFailed(p, fixed, i + 1,
                      IF r.tag = "Ok" THEN Append(converted, r.val) ELSE converted)

RECURSIVE ConvertFrom(_, _, _, _)
\* The second pass: the values of fixed[i..] of the fields that have a type
\* and a converter, appended to converted in the order of i; the first
\* failing conversion is returned.
ConvertFrom(p, fixed, i, converted) ==
  IF i > Len(fixed)
  THEN Ok(converted)
  ELSE LET typed == {fn \in DOMAIN p.field_map :
                       /\ p.field_map[fn] - 1 = i - 1
                       /\ fn \in DOMAIN p.field_types
                       /\ p.field_types[fn] \in DOMAIN p.type_converters}
       IN  IF typed = {}
           THEN ConvertFrom(p, fixed, i + 1, converted)
           ELSE LET fn == CHOOSE x \in typed : TRUE
                IN  Only({ IF r.tag = "Ok"
                           THEN ConvertFrom(p, fixed, i + 1, Append(converted, r.val))
                           ELSE r :
                           r \in {convert(p.type_converters[p.field_types[fn]], fixed[i])} })

process_captures(p, caps) ==
  LET n == Cardinality(DOMAIN p.field_map)
      present == {fn \in DOMAIN p.field_map : Captures_get(caps, p.field_map[fn]).tag = "Some"}
      m(fn) == Captures_get(caps, p.field_map[fn]).val
      \* fixed[group_idx - 1] = value, on a vector of field_map.len() entries
      out_of_bounds == \E fn \in present : p.field_map[fn] - 1 >= n
      fixed == [i \in 1..n |->
                  IF \E fn \in present : p.field_map[fn] = i
                  THEN m(CHOOSE fn \in present : p.field_map[fn] = i).str
                  ELSE <<>>]
      named == [fn \in present |-> m(fn).str]
      visited == SelectSeq(p.field_order, LAMBDA fn : fn \in present)
      spans == [j \in 1..Len(visited) |-> <<m(visited[j]).start, m(visited[j]).end>>]
  IN  IF out_of_bounds THEN Panic
      ELSE Only({ IF converted.tag = "Err" THEN converted
                  ELSE Ok([fixed |-> fixed, named |-> named, spans |-> spans,
                           converted |-> converted.val]) :
                  converted \in {ConvertFrom(p, fixed, 1, <<>>)} })

\* Option<Captures>.map(process_captures).and_then(Result::ok)
FirstResult(p, caps) ==
  IF ~caps.ok THEN None
  ELSE Only({ CASE r.tag = "Panic" -> Panic
                [] r.tag = "Ok" -> Some(r.val)
                [] r.tag = "Err" -> None :
              r \in {process_captures(p, caps)} })

parse(p, txt) == FirstResult(p, captures(p.pattern, txt))

search(p, txt) == FirstResult(p, captures(p.search_pattern, txt))

RECURSIVE Collect(_, _, _)
\* collect::<Result<Vec<_>, _>>() over the lazily mapped matches: it stops
\* at the first Err and returns it.
Collect(p, ms, acc) ==
  IF ms = <<>> THEN Ok(acc)
  ELSE Only({ IF r.tag = "Ok" THEN Collect(p, Tail(ms), Append(acc, r.val)) ELSE r :
              r \in {process_captures(p, Head(ms))} })

findall(p, txt) ==
  Only({ CASE r.tag = "Panic" -> Panic
           [] r.tag = "Ok" -> [tag |-> "Vec", val |-> r.val]
           [] r.tag = "Err" -> [tag |-> "Vec", val |-> <<>>] :
         r \in {Collect(p, captures_iter(p.search_pattern, txt), <<>>)} })

ValueTypes == {"i64", "f64", "String", "NaiveDateTime"}

\* get without the downcast to T.
get_AnyType(result, T, index) ==
  IF index < Len(result.converted) THEN Some(result.converted[index + 1]) ELSE None

\* ParseResult::get::<T>(index): Vec::get, then Any::downcast_ref::<T>.
get(result, T, index) ==
  IF index < Len(result.converted) /\ result.converted[index + 1].type = T
  THEN Some(result.converted[index + 1])
  ELSE None

\* Lookup by name: the public field ParseResult::named, a HashMap<String,
\* String> of the raw substrings; a request for any type but String has no
\* value to return.
named_get(result, T, name) ==
  IF name \in DOMAIN result.named /\ T = "String"
  THEN Some(Box("String", result.named[name]))
  ELSE None

\* The free functions parse, search and findall: Parser::new(format, false),
\* then the method; no result when the template does not compile.  The
\* parser is built once and bound to p.
free_parse(fmt, txt, field_order) ==
  CHOOSE out \in {IF p.tag = "Ok" THEN parse(p.val, txt) ELSE None :
                    p \in {new(fmt, FALSE, field_order)}} : TRUE

free_search(fmt, txt, field_order) ==
  CHOOSE out \in {IF p.tag = "Ok" THEN search(p.val, txt) ELSE None :
                    p \in {new(fmt, FALSE, field_order)}} : TRUE

free_findall(fmt, txt, field_order) ==
  CHOOSE out \in {IF p.tag = "Ok" THEN findall(p.val, txt) ELSE [tag |-> "Vec", val |-> <<>>] :
                    p \in {new(fmt, FALSE, field_order)}} : TRUE

(***************************************************************************)
(* Sessions: one template, one flag and one text; the Parser is built      *)
(* once and then used for any number of calls.                             *)
(***************************************************************************)
Case(f, A) == [format |-> f, alphabet |-> A]

\* The templates of Spec, each with the characters its texts are made of.
Cases ==
  { Case(<<"{", ":", "d", "}">>, {"1", "u0663", " "}),
    Case(<<"{", ":", "w", "}", "{", ":", "d", "}">>, {"a", "1", "u0663"}),
    Case(<<"{", "}", " ", "{", ":", "d", "}">>, {"a", "1", " "}),
    Case(<<"{", ":", "d", "}", "{", "c", "}">>, {"a", "1"}),
    Case(<<"{", "n", ":", "d", "}">>, {"1", "u0663", "-"}),
    Case(<<"{", "n", ":", "w", "}", " ", "{", "g", ":", "d", "}">>, {"a", "1", " "}),
    Case(<<"{", "a", "}", " ", "{", "b", "}">>, {"a", "1", " "}),
    Case(<<"{", ":", "f", "}">>, {"1", ".", "-"}),
    Case(<<"$", "{", ":", "d", "}">>, {"$", "1"}),
    Case(<<"(", "{", ":", "w", "}", ")">>, {"(", ")", "a"}),
    Case(<<"a", ".", "{", "}">>, {"a", ".", "1"}),
    Case(<<"{", "}", ",", "{", "}">>, {"a", ",", " "}),
    Case(<<"{", ":", "w", "}", ",", "{", ":", "w", "}">>, {"a", ",", " "}),
    Case(<<"{", "{", "{", "}">>, {"{", "a", " "}),
    Case(<<"{", "{", "}", "}", "{", "}">>, {"{", "}", "a"}),
    Case(<<"{", "x", "}", "{", "x", "}">>, {"a", " "}),
    Case(<<"{", "x", ":", "d", "}", "{", "x", ":", "d", "}">>, {"1", "u0663"}),
    Case(<<"a", "{", ":", "w", "}">>, {"a", "A", "1"}),
    Case(<<"a">>, {"a", "A", "\n"}),
    Case(<<"a", ".">>, {"a", ".", "b"}),
    Case(<<>>, {"a", " "}),
    Case(<<"{", ":", "z", "}">>, {"a"}),
    Case(<<"a", ")">>, {"a", ")"}) }

Unbuilt == [tag |-> "Unbuilt"]
NoCall == [op |-> "none", out |-> None]
\* No converter is under direct call.  Where none is, no text of the session
\* is taken by a date layout, and the chrono release makes no difference.
NoConverter == [name |-> "", format_type |-> ""]

NoLookup == [type |-> "", index |-> 0, out |-> None]

Init ==
  /\ \E c \in Cases :
       /\ format = c.format
       /\ text \in SeqsUpTo(c.alphabet, MaxTextLen)
  /\ case_sensitive \in BOOLEAN
  /\ extra_types = EmptyMap
  /\ parser = Unbuilt
  /\ call = NoCall
  /\ lookup = NoLookup
  /\ date_converter = NoConverter
  /\ chrono = [ranges |-> "on_set", whitespace |-> "lenient"]

\* Parser::new(format, case_sensitive)
New ==
  /\ parser = Unbuilt
  /\ \E field_order \in Orders(FieldKeys(format)) :
       parser' = new(format, case_sensitive, field_order)
  /\ UNCHANGED <<format, case_sensitive, extra_types, text, call, lookup, date_converter, chrono>>

\* Parser::parse(text)
Parse ==
  /\ parser.tag = "Ok"
  /\ call' = [op |-> "parse", out |-> parse(parser.val, text)]
  /\ lookup' = NoLookup
  /\ UNCHANGED <<format, case_sensitive, extra_types, text, parser, date_converter, chrono>>

\* Parser::search(text)
Search ==
  /\ parser.tag = "Ok"
  /\ call' = [op |-> "search", out |-> search(parser.val, text)]
  /\ lookup' = NoLookup
  /\ UNCHANGED <<format, case_sensitive, extra_types, text, parser, date_converter, chrono>>

\* Parser::findall(text)
FindAll ==
  /\ parser.tag = "Ok"
  /\ call' = [op |-> "findall", out |-> findall(parser.val, text)]
  /\ lookup' = NoLookup
  /\ UNCHANGED <<format, case_sensitive, extra_types, text, parser, date_converter, chrono>>

\* ParseResult::get::<T>(index) on the result of the last parse or search.
Get ==
  /\ call.op \in {"parse", "search"}
  /\ call.out.tag = "Some"
  /\ \E T \in ValueTypes, index \in 0..Len(call.out.val.fixed) :
       lookup' = [type |-> T, index |-> index, out |-> get(call.out.val, T, index)]
  /\ UNCHANGED <<format, case_sensitive, extra_types, text, parser, call, date_converter, chrono>>

\* parse(format, text), the free function
FreeParse ==
  /\ \E field_order \in Orders(FieldKeys(format)) :
       call' = [op |-> "free_parse", out |-> free_parse(format, text, field_order)]
  /\ lookup' = NoLookup
  /\ UNCHANGED <<format, case_sensitive, extra_types, text, parser, date_converter, chrono>>

\* search(format, text), the free function
FreeSearch ==
  /\ \E field_order \in Orders(FieldKeys(format)) :
       call' = [op |-> "free_search", out |-> free_search(format, text, field_order)]
  /\ lookup' = NoLookup
  /\ UNCHANGED <<format, case_sensitive, extra_types, text, parser, date_converter, chrono>>

\* findall(format, text), the free function
FreeFindAll ==
  /\ \E field_order \in Orders(FieldKeys(format)) :
       call' = [op |-> "free_findall", out |-> free_findall(format, text, field_order)]
  /\ lookup' = NoLookup
  /\ UNCHANGED <<format, case_sensitive, extra_types, text, parser, date_converter, chrono>>

Next ==
  New \/ Parse \/ Search \/ FindAll \/ Get \/ FreeParse \/ FreeSearch \/ FreeFindAll

Spec == Init /\ [][Next]_vars

(***************************************************************************)
(* Compilation alone, over every short template.                           *)
(***************************************************************************)
FormatAlphabet == {"{", "}", ":", "d", "x"}

InitCompile ==
  /\ format \in SeqsUpTo(FormatAlphabet, MaxFormatLen)
  /\ text = <<>>
  /\ case_sensitive \in BOOLEAN
  /\ extra_types = EmptyMap
  /\ parser = Unbuilt
  /\ call = NoCall
  /\ lookup = NoLookup
  /\ date_converter = NoConverter
  /\ chrono = [ranges |-> "on_set", whitespace |-> "lenient"]

NextCompile == New

SpecCompile == InitCompile /\ [][NextCompile]_vars

(***************************************************************************)
(* Construction with the caller's converters.                              *)
(***************************************************************************)
CustomTags == {<<"d">>, <<"u">>}
CustomConverters == {CustomConverter("digit"), CustomConverter("any")}

\* Every registry the caller may pass over these tags and converters.
ExtraRegistries ==
  UNION {[tags -> CustomConverters] : tags \in SUBSET CustomTags}

TypesCases ==
  { <<"{", ":", "d", "}">>, <<"{", ":", "u", "}">>, <<"{", ":", "w", "}">>,
    <<"{", ":", "d", "}", " ", "{", ":", "u", "}">> }

InitTypes ==
  /\ format \in TypesCases
  /\ text \in SeqsUpTo({"1", "a", " "}, MaxTextLen)
  /\ case_sensitive \in BOOLEAN
  /\ extra_types \in ExtraRegistries
  /\ parser = Unbuilt
  /\ call = NoCall
  /\ lookup = NoLookup
  /\ date_converter = NoConverter
  /\ chrono = [ranges |-> "on_set", whitespace |-> "lenient"]

\* The keys of the field table Parser::new_with_types builds for the template.
FieldKeysWith(fmt, extra) ==
  LET f == parse_format(fmt, MergeTypes(extra))
  IN  IF f.tag = "Ok" THEN DOMAIN f.val.field_map ELSE {}

\* Parser::new_with_types(format, case_sensitive, extra_types)
NewWithTypes ==
  /\ parser = Unbuilt
  /\ \E field_order \in Orders(FieldKeysWith(format, extra_types)) :
       parser' = new_with_types(format, case_sensitive, extra_types, field_order)
  /\ UNCHANGED <<format, case_sensitive, extra_types, text, call, lookup, date_converter, chrono>>

NextTypes == NewWithTypes \/ Parse \/ Search \/ FindAll \/ Get

SpecTypes == InitTypes /\ [][NextTypes]_vars

(***************************************************************************)
(* One named field, over every short name.                                 *)
(***************************************************************************)
NameAlphabet == {"a", "0", ".", "[", "]"}

InitNames ==
  /\ \E name \in SeqsUpTo(NameAlphabet, MaxNameLen) : format = <<"{">> \o name \o <<"}">>
  /\ text \in {<<>>, <<"a">>, <<"a", " ">>, <<"0", ".">>}
  /\ case_sensitive \in BOOLEAN
  /\ extra_types = EmptyMap
  /\ parser = Unbuilt
  /\ call = NoCall
  /\ lookup = NoLookup
  /\ date_converter = NoConverter
  /\ chrono = [ranges |-> "on_set", whitespace |-> "lenient"]

NextNames == New \/ Parse \/ Search

SpecNames == InitNames /\ [][NextNames]_vars

(***************************************************************************)
(* Direct calls of TypeConverter::convert on a date/time converter: every  *)
(* format_type and one that has no layouts, over texts built from a date,  *)
(* a separator and a time of day.                                          *)
(***************************************************************************)
DateTexts ==
  { <<"2", "7", "/", "1", "2", "/", "2", "0", "2", "4">>,
    <<"2", "0", "2", "4", "/", "1", "2", "/", "2", "7">>,
    <<"1", "2", "/", "2", "7", "/", "2", "0", "2", "4">>,
    <<"2", "0", "2", "4", "-", "1", "2", "-", "2", "7">>,
    <<"2", "7", " ", "D", "e", "c", " ", "2", "0", "2", "4">>,
    <<"D", "e", "c", " ", "2", "7", " ", "2", "0", "2", "4">>,
    <<"2", "7", "/", "D", "e", "c", "/", "2", "0", "2", "4">>,
    <<"F", "r", "i", ",", " ", "2", "7", " ", "D", "e", "c", " ", "2", "0", "2", "4">>,
    <<"M", "o", "n", ",", " ", "2", "7", " ", "D", "e", "c", " ", "2", "0", "2", "4">>,
    <<"3", "1", "/", "0", "2", "/", "2", "0", "2", "4">>,
    <<"0", "5", "/", "0", "6", "/", "2", "0", "2", "4">>,
    <<"0", "5", "/", "0", "6", "/", "0", "7">>,
    <<>> }

Separators ==
  { <<>>, <<" ">>, <<"T">>, <<":">> }

TimeTexts ==
  { <<"1", "9", ":", "5", "7", ":", "5", "5">>,
    <<"1", "9", ":", "5", "7">>,
    <<"0", "7", ":", "5", "7", ":", "5", "5", " ", "P", "M">>,
    <<"0", "7", ":", "5", "7", " ", "P", "M">>,
    <<"1", "9", ":", "5", "7", ":", "5", "5", " ", "+", "0", "1", "0", "0">>,
    <<"1", "9", ":", "5", "7", ":", "5", "5", "+", "0", "1", ":", "0", "0">>,
    <<"1", "9", ":", "5", "7", ":", "5", "5", ".", "0", "0", "0">>,
    <<"1", "9", ":", "5", "7", ":", "5", "5", ".", "0", "0", "0", "+", "0", "1", ":", "0", "0">>,
    <<"2", "5", ":", "0", "0">>,
    <<"1", "1", ":", "3", "0">>,
    <<>> }

DateTimeTexts == {d \o g \o t : d \in DateTexts, g \in Separators, t \in TimeTexts}

InitDateTime ==
  /\ format = <<>>
  /\ case_sensitive = TRUE
  /\ extra_types = EmptyMap
  /\ text \in DateTimeTexts
  /\ parser = Unbuilt
  /\ call = NoCall
  /\ lookup = NoLookup
  /\ date_converter \in {DateTimeConverter(ft) : ft \in DateTimeTags \cup {"tx"}}
  /\ chrono \in ChronoReleases

\* DateTimeConverter::convert(&self, text)
Convert ==
  /\ call = NoCall
  /\ call' = [op |-> "convert", out |-> convert(date_converter, text)]
  /\ UNCHANGED <<format, case_sensitive, extra_types, text, parser, lookup, date_converter, chrono>>

NextDateTime == Convert

SpecDateTime == InitDateTime /\ [][NextDateTime]_vars

(***************************************************************************)
(* Claims                                                                  *)
(***************************************************************************)
Built == parser.tag = "Ok"
Called(ops) == call.op \in ops

\* The captures the last parse or search worked on.
FirstCaptures ==
  captures(IF call.op = "parse" THEN parser.val.pattern ELSE parser.val.search_pattern, text)

\* The typed fields whose converter fails on the substring the field captured.
FailingFields(p, caps) ==
  {fn \in DOMAIN p.field_types :
     /\ Captures_get(caps, p.field_map[fn]).tag = "Some"
     /\ convert(p.type_converters[p.field_types[fn]],
                Captures_get(caps, p.field_map[fn]).val.str).tag = "Err"}

\* The results of the matches of findall whose conversions all succeed, in
\* the order of the matches.
ConvertingMatches(p, txt) ==
  LET ms == captures_iter(p.search_pattern, txt)
      ok == SelectSeq(ms, LAMBDA m : process_captures(p, m).tag = "Ok")
  IN  [j \in 1..Len(ok) |-> process_captures(p, ok[j]).val]

\* C1: findall returns exactly the results of the matches whose conversions
\* all succeed, in their order; a failing match removes only itself.
C1_FindallSkipsFailedMatch ==
  (Called({"findall"}) /\ call.out.tag = "Vec")
    => call.out.val = ConvertingMatches(parser.val, text)

\* C2: when the pattern matches and the converter of some field fails, parse
\* and search return None (search on its leftmost match), and a result that
\* is returned holds the converted value of every typed field.
C2_AllOrNothing ==
  (Called({"parse", "search"}) /\ FirstCaptures.ok /\ call.out.tag # "Panic")
    => /\ FailingFields(parser.val, FirstCaptures) # {} => call.out = None
       /\ call.out.tag = "Some" =>
            Len(call.out.val.converted) = Cardinality(DOMAIN parser.val.field_types)

\* C2 witness: search returned None on a leftmost match whose conversion
\* fails although a later match of the text converts.
C2_Witness ==
  /\ Called({"search"}) /\ FirstCaptures.ok
  /\ FailingFields(parser.val, FirstCaptures) # {}
  /\ call.out = None
  /\ ConvertingMatches(parser.val, text) # <<>>

\* The value the converter of field fn makes of the raw substring, the
\* substring itself as a String when the field has no type.
FieldValue(p, fn, raw) ==
  IF fn \in DOMAIN p.field_types
  THEN convert(p.type_converters[p.field_types[fn]], raw).val
  ELSE Box("String", raw)

Returned == Called({"parse", "search"}) /\ call.out.tag = "Some"

\* C3: get at index i returns the value of the i-th declared field, typed or
\* not; the value of an untyped field is its raw substring as a String.
C3_PositionalOverAllFields ==
  Returned =>
    \A fn \in DOMAIN parser.val.field_map :
      LET i == parser.val.field_map[fn] - 1
          v == FieldValue(parser.val, fn, call.out.val.fixed[i + 1])
      IN  get(call.out.val, v.type, i) = Some(v)

\* C4: the lookup of a typed field by its identifier, with the value type of
\* its converter, yields the typed value the lookup by position yields, and
\* a lookup under an undeclared identifier is absent.
C4_ByNameAgreesWithPosition ==
  Returned =>
    /\ \A fn \in DOMAIN parser.val.field_types :
         LET i == parser.val.field_map[fn] - 1
             v == FieldValue(parser.val, fn, call.out.val.fixed[i + 1])
         IN  /\ named_get(call.out.val, v.type, fn) = Some(v)
             /\ named_get(call.out.val, v.type, fn) = get(call.out.val, v.type, i)
    /\ \A T \in ValueTypes : named_get(call.out.val, T, <<"n", "o">>) = None

Looked == lookup.type # ""

\* C5: a lookup returns the stored value at the index when that value has
\* exactly the requested type, and absent otherwise: past the last stored
\* value, or when the stored type differs.
C5_TypedLookupGuard ==
  Looked =>
    LET stored == call.out.val.converted
        inside == lookup.index < Len(stored)
    IN  /\ lookup.out.tag \in {"None", "Some"}
        /\ lookup.out.tag = "Some" =>
             /\ inside
             /\ lookup.out.val = stored[lookup.index + 1]
             /\ lookup.out.val.type = lookup.type
        /\ (~inside \/ stored[lookup.index + 1].type # lookup.type) => lookup.out = None
        /\ (inside /\ stored[lookup.index + 1].type = lookup.type) => lookup.out.tag = "Some"

\* C5 witness: an i64 was stored and asked for as a String.
C5_Witness ==
  /\ Looked
  /\ lookup.index < Len(call.out.val.converted)
  /\ call.out.val.converted[lookup.index + 1].type = "i64"
  /\ lookup.type = "String"
  /\ lookup.out = None

(***************************************************************************)
(* The template as its documentation reads it: literal characters, doubled *)
(* braces and fields, in the order the scan completes them.                *)
(***************************************************************************)
Token(kind, c, name, type) == [kind |-> kind, c |-> c, name |-> name, type |-> type]

RECURSIVE BraceError(_, _, _)
\* Whether the scan from position i on meets a single '{' inside a field or
\* a single '}' outside one, or ends inside a field.
BraceError(fmt, i, inside) ==
  IF i > Len(fmt) THEN inside
  ELSE LET doubled == i < Len(fmt) /\ fmt[i] \in {"{", "}"} /\ fmt[i + 1] = fmt[i]
       IN  CASE doubled -> BraceError(fmt, i + 2, inside)
             [] ~doubled /\ fmt[i] = "{" -> inside \/ BraceError(fmt, i + 1, TRUE)
             [] ~doubled /\ fmt[i] = "}" -> ~inside \/ BraceError(fmt, i + 1, FALSE)
             [] OTHER -> BraceError(fmt, i + 1, inside)

WellBraced(fmt) == ~BraceError(fmt, 1, FALSE)

RECURSIVE TokensFrom(_, _, _, _, _, _)
\* The tokens of a well-braced template from position i on.
TokensFrom(fmt, i, inside, in_tag, name, type) ==
  IF i > Len(fmt) THEN <<>>
  ELSE LET c == fmt[i]
           doubled == i < Len(fmt) /\ c \in {"{", "}"} /\ fmt[i + 1] = c
       IN  CASE doubled ->
                  <<Token("doubled", c, <<>>, <<>>)>>
                    \o TokensFrom(fmt, i + 2, inside, in_tag, name, type)
             [] ~doubled /\ c = "{" -> TokensFrom(fmt, i + 1, TRUE, FALSE, <<>>, <<>>)
             [] ~doubled /\ c = "}" ->
                  <<Token("field", "", name, type)>>
                    \o TokensFrom(fmt, i + 1, FALSE, FALSE, <<>>, <<>>)
             [] ~doubled /\ c \notin {"{", "}"} /\ inside ->
                  IF c = ":" THEN TokensFrom(fmt, i + 1, inside, TRUE, name, type)
                  ELSE IF in_tag
                  THEN TokensFrom(fmt, i + 1, inside, in_tag, name, Append(type, c))
                  ELSE TokensFrom(fmt, i + 1, inside, in_tag, Append(name, c), type)
             [] OTHER ->
                  <<Token("literal", c, <<>>, <<>>)>>
                    \o TokensFrom(fmt, i + 1, inside, in_tag, name, type)

Tokens(fmt) == TokensFrom(fmt, 1, FALSE, FALSE, <<>>, <<>>)

Fields(fmt) == SelectSeq(Tokens(fmt), LAMBDA t : t.kind = "field")

\* A value every field of the template accepts: a digit for a number, a
\* letter otherwise.
SampleValues(fmt) ==
  [k \in 1..Len(Fields(fmt)) |->
     IF Fields(fmt)[k].type \in {<<"d">>, <<"f">>} THEN <<"1">> ELSE <<"a">>]

Delimiter == {",", "=", "+", "-"}

RECURSIVE RenderFrom(_, _, _, _)
\* The text of the tokens with the k-th field replaced by vals[k], a space
\* put on both sides of a literal delimiter when spaced.
RenderFrom(toks, vals, k, spaced) ==
  IF toks = <<>> THEN <<>>
  ELSE LET t == Head(toks)
       IN  CASE t.kind = "field" ->
                  vals[k] \o RenderFrom(Tail(toks), vals, k + 1, spaced)
             [] t.kind = "literal" /\ spaced /\ t.c \in Delimiter ->
                  <<" ", t.c, " ">> \o RenderFrom(Tail(toks), vals, k, spaced)
             [] OTHER -> <<t.c>> \o RenderFrom(Tail(toks), vals, k, spaced)

Render(fmt, vals) == RenderFrom(Tokens(fmt), vals, 1, FALSE)
RenderSpaced(fmt, vals) == RenderFrom(Tokens(fmt), vals, 1, TRUE)

FoldAll(s) == [i \in 1..Len(s) |-> Fold(s[i])]

KnownTags(fmt) ==
  \A k \in 1..Len(Fields(fmt)) :
    Fields(fmt)[k].type = <<>> \/ Fields(fmt)[k].type \in DOMAIN DEFAULT_TYPES

\* C6: a character outside a field is matched as that character only: a
\* well-formed template compiles, its pattern has one group per field, it
\* matches the text that spells its literals out, and a text it matches
\* spells its literals out.
C6_LiteralsEscaped ==
  /\ (parser # Unbuilt /\ WellBraced(format) /\ KnownTags(format)) => Built
  /\ Built => parser.val.pattern.ngroups = Len(Fields(format))
  /\ (Called({"parse"}) /\ call.out.tag # "Panic") =>
       /\ text = Render(format, SampleValues(format)) =>
            call.out.tag = "Some" /\ call.out.val.fixed = SampleValues(format)
       /\ call.out.tag = "Some" =>
            IF case_sensitive
            THEN Render(format, call.out.val.fixed) = text
            ELSE FoldAll(Render(format, call.out.val.fixed)) = FoldAll(text)

HasDelimiter(fmt) ==
  \E k \in 1..Len(Tokens(fmt)) : Tokens(fmt)[k].kind = "literal" /\ Tokens(fmt)[k].c \in Delimiter

\* C7: a template with a literal delimiter matches the text without spaces
\* around the delimiter and the text with them, with the same field values.
C7_DelimiterWhitespace ==
  (Called({"parse"}) /\ call.out.tag # "Panic" /\ HasDelimiter(format)
     /\ text = Render(format, SampleValues(format)))
    => /\ call.out.tag = "Some"
       /\ call.out.val.fixed = SampleValues(format)
       /\ parse(parser.val, RenderSpaced(format, SampleValues(format))) = call.out

\* C8: a template in which the scan meets a single '{' inside a field or a
\* single '}' outside one, or which ends inside a field, is refused with
\* InvalidFormat and no parser is built.
C8_BraceErrorsRejected ==
  (parser # Unbuilt /\ ~WellBraced(format)) => parser = InvalidFormat

C8_Witness ==
  /\ format \in {<<"x", "{", "d">>, <<"x", "}", "d">>,
                 <<"x", "{", "d", "}", "}">>, <<"x", "{", "{", "d", "}">>}
  /\ ~WellBraced(format)
  /\ parser = InvalidFormat

\* C9: a template with a field whose tag is not in the registry is refused
\* with InvalidFormat, and in every parser built each typed field's tag has
\* a converter in the parser's registry.
C9_UnknownTagRejected ==
  /\ (parser # Unbuilt /\ WellBraced(format) /\ ~KnownTags(format))
       => parser = InvalidFormat
  /\ Built =>
       \A fn \in DOMAIN parser.val.field_types :
         parser.val.field_types[fn] \in DOMAIN parser.val.type_converters

C9_Witness ==
  /\ format = <<"{", "x", ":", "x", "}">>
  /\ WellBraced(format) /\ ~KnownTags(format)
  /\ parser = InvalidFormat

\* The escaped braces and the group openings of a pattern, in order.
BraceLexes(src) == SelectSeq(src, LAMBDA lex : lex \in {"\\{", "\\}", "("})

\* The same as the template's tokens give them.
TokenLexes(fmt) ==
  LET toks == SelectSeq(Tokens(fmt), LAMBDA t : t.kind # "literal")
  IN  [k \in 1..Len(toks) |->
         CASE toks[k].kind = "field" -> "("
           [] toks[k].c = "{" -> "\\{"
           [] OTHER -> "\\}"]

HasDoubled(fmt) == \E k \in 1..Len(Tokens(fmt)) : Tokens(fmt)[k].kind = "doubled"

\* C10: each doubled brace of the template is one escaped brace of the
\* pattern, in the template's order among the fields' groups, and adds no
\* group and no field; a template with doubled braces and one field matches
\* the text with single braces in their place, with that one field.
C10_DoubledBracesAreLiterals ==
  Built =>
    /\ BraceLexes(parser.val.search_pattern.src) = TokenLexes(format)
    /\ parser.val.pattern.ngroups = Len(Fields(format))
    /\ Cardinality(DOMAIN parser.val.field_map) <= Len(Fields(format))
    /\ (HasDoubled(format) /\ Len(Fields(format)) = 1) =>
         LET r == parse(parser.val, Render(format, SampleValues(format)))
         IN  r.tag = "Some" /\ r.val.fixed = SampleValues(format)

C10_Witness ==
  /\ Built
  /\ format = <<"{", "{", "}", "}", "{", "}">>
  /\ parse(parser.val, <<"{", "}", "a">>).tag = "Some"
  /\ parse(parser.val, <<"{", "}", "a">>).val.fixed = <<<<"a">>>>

\* The texts the pattern of a converter accepts as a whole field: one digit
\* for the caller's "digit", a run without whitespace for the caller's "any".
CustomAccepts(converter, s) ==
  IF converter.format_type = "digit"
  THEN Len(s) = 1 /\ s[1] \in AsciiDigit \cup OtherDigit
  ELSE s # <<>> /\ \A i \in 1..Len(s) : s[i] \notin Whitespace

\* C11: the registry of a parser built with the caller's converters has the
\* built-in tags and the caller's tags as keys, holds the caller's converter
\* under each of the caller's tags and the built-in one under every other,
\* and a field of a tag the caller supplied takes its pattern and its value
\* from the caller's converter.
C11_RegistryMerge ==
  Built =>
    LET reg == parser.val.type_converters
    IN  /\ DOMAIN reg = DOMAIN DEFAULT_TYPES \cup DOMAIN extra_types
        /\ \A k \in DOMAIN extra_types : reg[k] = extra_types[k]
        /\ \A k \in DOMAIN DEFAULT_TYPES \ DOMAIN extra_types : reg[k] = DEFAULT_TYPES[k]
        /\ (Called({"parse"}) /\ Len(format) = 4 /\ <<format[3]>> \in DOMAIN extra_types) =>
             IF CustomAccepts(extra_types[<<format[3]>>], text)
             THEN /\ call.out.tag = "Some"
                  /\ call.out.val.converted = <<Box("Custom", text)>>
             ELSE call.out = None

\* C11 witness: the caller's converter under the built-in tag d accepted a
\* text that is no number.
C11_Witness ==
  /\ Built /\ Called({"parse"})
  /\ format = <<"{", ":", "d", "}">>
  /\ <<"d">> \in DOMAIN extra_types
  /\ text = <<"a">>
  /\ call.out.tag = "Some"
  /\ parser.val.type_converters[<<"w">>] = WordConverter

\* The characters that differ from c in letter case at most.
CaseSet(c) == {d \in Lower \cup Upper \cup {c} : Fold(d) = Fold(c)}

RECURSIVE VariantsOf(_)
\* The texts that differ from txt in letter case at most.
VariantsOf(txt) ==
  IF txt = <<>> THEN {<<>>}
  ELSE {<<d>> \o v : d \in CaseSet(Head(txt)), v \in VariantsOf(Tail(txt))}

\* Whether a call returned a match.
Matched(out) ==
  CASE out.tag = "Some" -> TRUE
    [] out.tag = "Vec" -> out.val # <<>>
    [] OTHER -> FALSE

\* The parser of the template built case-sensitively.
SensitiveParser == new(format, TRUE, CHOOSE o \in Orders(FieldKeys(format)) : TRUE).val

\* What the method of the last call returns from p on txt.
Recall(p, txt) ==
  CASE call.op \in {"parse", "free_parse"} -> parse(p, txt)
    [] call.op \in {"search", "free_search"} -> search(p, txt)
    [] call.op \in {"findall", "free_findall"} -> findall(p, txt)

FreeCalls == {"free_parse", "free_search", "free_findall"}

\* Whether every literal of the template is a letter, a space or a comma.
PlainLiterals(fmt) ==
  \A k \in 1..Len(Tokens(fmt)) :
    Tokens(fmt)[k].kind = "literal" => Tokens(fmt)[k].c \in Lower \cup Upper \cup {" ", ","}

FindallMatches == captures_iter(parser.val.search_pattern, text)

\* C13: the results of findall are those of the matches from left to right,
\* each match starts after the start and at or after the end of the one
\* before it, and every span of a result ends at or before the start of
\* every span of a later result.
C13_FindallOrdered ==
  (Called({"findall"}) /\ call.out.tag = "Vec") =>
    LET ms == FindallMatches
        rs == call.out.val
    IN  /\ \A j \in 1..(Len(ms) - 1) :
             ms[j].start < ms[j + 1].start /\ ms[j].end <= ms[j + 1].start
        /\ rs # <<>> =>
             /\ Len(rs) = Len(ms)
             /\ \A j \in 1..Len(rs) : Ok(rs[j]) = process_captures(parser.val, ms[j])
        /\ \A j, k \in 1..Len(rs) :
             j < k => \A a \in 1..Len(rs[j].spans), b \in 1..Len(rs[k].spans) :
                        rs[j].spans[a][2] <= rs[k].spans[b][1]

\* C13 witness: findall of "{:d}" on "1 1" returned the two numbers, the
\* first before the second.
C13_Witness ==
  /\ Called({"findall"}) /\ call.out.tag = "Vec"
  /\ format = <<"{", ":", "d", "}">>
  /\ text = <<"1", " ", "1">>
  /\ Len(call.out.val) = 2
  /\ call.out.val[1].spans = <<<<0, 1>>>>
  /\ call.out.val[2].spans = <<<<2, 3>>>>
  /\ call.out.val[2].converted = <<Box("i64", 1)>>

\* C14: parse returns a result only when the match of the anchored pattern
\* runs from the first to the last character of the text; the empty template
\* matches the empty text only, and a template of literals matches that
\* literal only.
C14_ExactMatchWholeText ==
  (Called({"parse"}) /\ call.out.tag # "Panic") =>
    /\ call.out.tag = "Some" =>
         FirstCaptures.ok /\ FirstCaptures.start = 0 /\ FirstCaptures.end = Len(text)
    /\ format = <<>> => (call.out.tag = "Some" <=> text = <<>>)
    /\ Fields(format) = <<>> =>
         (call.out.tag = "Some" <=>
            IF case_sensitive
            THEN text = Render(format, <<>>)
            ELSE FoldAll(text) = FoldAll(Render(format, <<>>)))

\* C15: when parse succeeds on a text, parse of the text followed by one
\* "\n" succeeds with the same field values.
C15_TrailingNewline ==
  (Called({"parse"}) /\ call.out.tag = "Some") =>
    LET r == parse(parser.val, Append(text, "\n"))
    IN  r.tag = "Some" /\ r.val.fixed = call.out.val.fixed

\* C16: when parse succeeds, the template with every field replaced by the
\* substring the field captured, its literals as written and its doubled
\* braces single, is the text.
C16_RoundTrip ==
  (Called({"parse"}) /\ call.out.tag = "Some") =>
    Render(format, call.out.val.fixed) = text

\* What the method op returns from p on txt.
MethodOf(op, p, txt) ==
  CASE op = "parse" -> parse(p, txt)
    [] op = "search" -> search(p, txt)
    [] op = "findall" -> findall(p, txt)

\* The parsers a fresh Parser::new of the session's template and flag may
\* return.
FreshParsers ==
  {new(format, case_sensitive, o).val : o \in Orders(FieldKeys(format))}

\* C17: a parse, search or findall leaves the parser as it was and returns
\* what the same call returns from a freshly built parser of the same
\* template and flag.
C17_ParserNotMutated ==
  [][(Parse \/ Search \/ FindAll) =>
       /\ parser' = parser
       /\ \A fresh \in FreshParsers : call'.out = MethodOf(call'.op, fresh, text)]_vars

RECURSIVE Flattened(_)
\* The name with "__" for every '.' and every '[', and without ']'.
Flattened(name) ==
  IF name = <<>> THEN <<>>
  ELSE CASE Head(name) \in {".", "["} -> <<"_", "_">> \o Flattened(Tail(name))
         [] Head(name) = "]" -> Flattened(Tail(name))
         [] OTHER -> <<Head(name)>> \o Flattened(Tail(name))

\* The identifier of the k-th field of the template.
Identifier(fmt, k) ==
  IF Fields(fmt)[k].name = <<>> THEN DecStr(k - 1) ELSE Flattened(Fields(fmt)[k].name)

\* C18: the field table of a template with n fields has n entries, and the
\* identifier of the k-th field has group index k.
C18_FieldTable ==
  Built =>
    /\ Cardinality(DOMAIN parser.val.field_map) = Len(Fields(format))
    /\ \A k \in 1..Len(Fields(format)) :
         /\ Identifier(format, k) \in DOMAIN parser.val.field_map
         /\ parser.val.field_map[Identifier(format, k)] = k
    /\ parser.val.pattern.ngroups = Len(Fields(format))

\* C19: an anonymous field that is the k-th field of the template, named
\* and anonymous fields counted alike, has the decimal string of k - 1 as
\* its identifier, and the table holds it with group index k unless a later
\* field has the same identifier.
C19_AnonymousIdentifiers ==
  Built =>
    \A k \in 1..Len(Fields(format)) :
      Fields(format)[k].name = <<>> =>
        /\ DecStr(k - 1) \in DOMAIN parser.val.field_map
        /\ (\A j \in (k + 1)..Len(Fields(format)) : Identifier(format, j) # DecStr(k - 1))
             => parser.val.field_map[DecStr(k - 1)] = k

\* C19 witness: in "{x}{}" the anonymous field is the second and is "1".
C19_Witness ==
  /\ Built
  /\ format = <<"{", "x", "}", "{", "}">>
  /\ parser.val.field_map = Insert(Insert(EmptyMap, <<"x">>, 1), <<"1">>, 2)

\* The name written in the one field of a template of SpecNames.
WrittenName == SubSeq(format, 2, Len(format) - 1)

Candidates ==
  IF date_converter.format_type \in DateTimeTags
  THEN formats(date_converter.format_type) ELSE <<>>

\* The positions of the layouts that take the whole text as a date and time,
\* as a date, as a time.
AsDateTimes == {i \in 1..Len(Candidates) : AsDateTime(text, Candidates[i]).tag = "Ok"}
AsDates == {i \in 1..Len(Candidates) : NaiveDate_parse_from_str(text, Candidates[i]).tag = "Ok"}
AsTimes == {i \in 1..Len(Candidates) : NaiveTime_parse_from_str(text, Candidates[i]).tag = "Ok"}

First(S) == Candidates[CHOOSE i \in S : \A j \in S : i <= j]

\* C21: convert returns the text read by the first listed layout that takes it
\* as a date and time; if none does, by the first that takes it as a date; if
\* none does, by the first that takes it as a time; it fails exactly when no
\* layout takes it in any of the three ways.  The kind of the value is that
\* of the pass that succeeded.
C21_ConversionOrder ==
  call.op = "convert" =>
    IF AsDateTimes # {}
    THEN call.out = Ok(Box("NaiveDateTime", AsDateTime(text, First(AsDateTimes)).val))
    ELSE IF AsDates # {}
    THEN call.out = Ok(Box("NaiveDate", NaiveDate_parse_from_str(text, First(AsDates)).val))
    ELSE IF AsTimes # {}
    THEN call.out = Ok(Box("NaiveTime", NaiveTime_parse_from_str(text, First(AsTimes)).val))
    ELSE call.out = TypeConversionFailed

\* A text that no layout takes as a date and time, that two layouts take as
\* dates of different years, and that was converted to the first one's date.
C21_Witness ==
  /\ call.op = "convert"
  /\ AsDateTimes = {}
  /\ \E i, j \in AsDates :
       /\ i < j
       /\ NaiveDate_parse_from_str(text, Candidates[i]).val
            # NaiveDate_parse_from_str(text, Candidates[j]).val
  /\ call.out.tag = "Ok"
  /\ call.out.val.type = "NaiveDate"

(***************************************************************************)
(* Spans and indexes                                                       *)
(***************************************************************************)
\* txt[a..b]: the characters of txt from byte offset a up to byte offset b.
ByteSlice(txt, a, b) ==
  LET I == {i \in 1..Len(txt) : ByteOffset(txt, i - 1) >= a /\ ByteOffset(txt, i) <= b}
  IN  [k \in 1..Cardinality(I) |-> txt[(CHOOSE i \in I : \A j \in I : i <= j) + k - 1]]

\* The ParseResults the last method call returned.
Results ==
  IF Called({"parse", "search"}) /\ call.out.tag = "Some" THEN {call.out.val}
  ELSE IF Called({"findall"}) /\ call.out.tag = "Vec" THEN Range(call.out.val)
  ELSE {}

\* C22: a ParseResult of a template with n fields has n spans, and the i-th
\* span is the byte range of the text that holds the substring of the i-th
\* declared field, whatever the iteration order of the field table.
C22_SpansInDeclarationOrder ==
  \A r \in Results :
    /\ Len(r.spans) = Len(Fields(format))
    /\ \A i \in 1..Len(r.spans) : ByteSlice(text, r.spans[i][1], r.spans[i][2]) = r.fixed[i]

\* C23: parse, search and findall return without a panic, by method or by
\* free function, and every group index of the field table is at most the
\* number of its entries, the length of the vector of raw values.
C23_NoIndexOutOfBounds ==
  /\ call.out.tag # "Panic"
  /\ Built => \A fn \in DOMAIN parser.val.field_map :
                parser.val.field_map[fn] <= Cardinality(DOMAIN parser.val.field_map)

====
